---- MODULE Spec2Model ----
(***************************************************************************)
(* Model of plugins/analysis/cve_lookup/internal/data_prep.py: the walk of *)
(* the match-condition tree (iterate_nodes), the feed and dictionary       *)
(* extractors (extract_cve, extract_cpe) and the table builders            *)
(* (setup_cve_table, setup_cpe_table) and the choice of the download urls  *)
(* (download_data, download_cve, get_cve_links, iterate_urls).             *)
(*                                                                         *)
(* Python strings are sequences of one-character strings, so that the      *)
(* regular expressions, str.split and str.startswith are computed          *)
(* character by character.                                                 *)
(***************************************************************************)
EXTENDS Integers, Sequences, FiniteSets, TLC

VARIABLES
    op,             \* the function under execution
    pc,             \* its position
    arg,            \* its arguments, as passed by the caller
    idx,            \* number of elements the current for loop has consumed
    cpe_entries,    \* iterate_nodes: the accumulator list
    cve_list,       \* extract_cve: the matched output
    summary_list,   \* extract_cve: the summary output
    cpe_list,       \* extract_cpe: the identifier list
    ident,          \* setup_cve_table: the current id
    row,            \* setup_cve_table / setup_cpe_table: the row buffer
    cve_table,      \* setup_cve_table: vulnerability rows
    summary_table,  \* setup_cve_table: summary rows
    cpe_table,      \* setup_cpe_table: dictionary rows
    dl_urls,        \* download_data: the list of download urls
    fetched,        \* iterate_urls: the urls requested so far, in order
    outcome,        \* "running", "returned" or the name of the exception raised
    ret             \* the value handed back to the caller (<<>> if none)

vars == <<op, pc, arg, idx, cpe_entries, cve_list, summary_list, cpe_list,
          ident, row, cve_table, summary_table, cpe_table, dl_urls, fetched,
          outcome, ret>>

----------------------------------------------------------------------------
(* Bounds of the explored inputs.                                          *)

MaxTreeSize == 4    \* nodes plus leaf matches of a match tree
MaxItems == 2       \* items of a feed
MaxEntries == 2     \* entries of a dictionary
MaxTokens == 3      \* tokens of a flat sequence or of an identifier list
MaxSummaryTokens == 4   \* tokens of a summary sequence
MaxYears == 2       \* entries of the years argument of download_data

----------------------------------------------------------------------------
(* Text.                                                                   *)

Digits == {"0", "1", "2", "3", "4", "5", "6", "7", "8", "9"}

RECURSIVE Join(_, _)
Join(parts, sep) ==
    IF parts = <<>> THEN <<>>
    ELSE IF Len(parts) = 1 THEN parts[1]
    ELSE parts[1] \o <<sep>> \o Join(Tail(parts), sep)

\* The pieces of s between the positions in cuts (cut characters dropped):
\* what str.split and re.split return for one-character separators.
Pieces(s, cuts) ==
    LET n == Cardinality(cuts)
        cut(k) == IF k = 0 THEN 0
                  ELSE IF k = n + 1 THEN Len(s) + 1
                  ELSE CHOOSE p \in cuts : Cardinality({q \in cuts : q < p}) = k - 1
    IN  [k \in 1..(n + 1) |-> SubSeq(s, cut(k - 1) + 1, cut(k) - 1)]

\* str.split(sep) for a one-character sep
str_split(s, sep) == Pieces(s, {i \in 1..Len(s) : s[i] = sep})

\* str.startswith(prefix)
startswith(s, prefix) ==
    /\ Len(s) >= Len(prefix)
    /\ SubSeq(s, 1, Len(prefix)) = prefix

\* a slip: the text is compared with the needle instead of searched for it
equals(s, needle) == s = needle

\* substring test: needle in s
contains(s, needle) ==
    \E i \in 1..(Len(s) + 1) :
        /\ i + Len(needle) - 1 <= Len(s)
        /\ SubSeq(s, i, i + Len(needle) - 1) = needle

\* re.match(r'CVE-[0-9]{4}-[0-9]', entry): a match anchored at the start only
re_match_cve_id(entry) ==
    /\ Len(entry) >= 10
    /\ SubSeq(entry, 1, 4) = <<"C", "V", "E", "-">>
    /\ \A i \in 5..8 : entry[i] \in Digits
    /\ entry[9] = "-"
    /\ entry[10] \in Digits

\* re.split(r'(?<!\\)[:]', entry): cut at each ':' not preceded by a backslash
re_split_colon(entry) ==
    Pieces(entry, {i \in 1..Len(entry) :
                      /\ entry[i] = ":"
                      /\ (i = 1 \/ entry[i - 1] # "\\")})

REJECT == <<"*", "*", " ", "R", "E", "J", "E", "C", "T", " ", "*", "*">>

----------------------------------------------------------------------------
(* Sample texts.                                                           *)

CVE_2012_0001 == <<"C", "V", "E", "-", "2", "0", "1", "2", "-", "0", "0", "0", "1">>
CVE_2018_1 == <<"C", "V", "E", "-", "2", "0", "1", "8", "-", "1">>

Star == <<"*">>
Dash == <<"-">>

Cpe23(fields) == Join(<<<<"c", "p", "e">>, <<"2", ".", "3">>>> \o fields, ":")

\* cpe:2.3:a:b\:c:p:1.2:*:-:*:*:*:*:*
CPE_A == Cpe23(<< <<"a">>, <<"b", "\\", ":", "c">>, <<"p">>, <<"1", ".", "2">>,
                  Star, Dash, Star, Star, Star, Star, Star >>)
\* cpe:2.3:o:\$0.9:w\.1:-:*:*:*:*:x:*:*
CPE_B == Cpe23(<< <<"o">>, <<"\\", "$", "0", ".", "9">>, <<"w", "\\", ".", "1">>,
                  Dash, Star, Star, Star, Star, <<"x">>, Star, Star >>)

\* cpe:2.3:a:b\\:c:1:*:*:*:*:*:*:*  (the vendor field ends with an escaped
\* backslash)
CPE_C == Cpe23(<< <<"a">>, <<"b", "\\", "\\">>, <<"c">>, <<"1">>,
                  Star, Star, Star, Star, Star, Star, Star >>)

----------------------------------------------------------------------------
(* Match trees: a node is a record with key "operator" and, optionally,    *)
(* keys "cpe_match" (a list of leaves) and "children" (a list of nodes).   *)

Operators == {"AND", "OR"}

Leaves == {[vulnerable |-> TRUE, cpe23Uri |-> CPE_A],
           [vulnerable |-> TRUE, cpe23Uri |-> CPE_B],
           [vulnerable |-> FALSE, cpe23Uri |-> CPE_B]}

RECURSIVE SeqsOfLen(_, _)
SeqsOfLen(S, n) ==
    IF n = 0 THEN {<<>>}
    ELSE {<<x>> \o s : x \in S, s \in SeqsOfLen(S, n - 1)}

SeqsUpTo(S, n) == UNION {SeqsOfLen(S, k) : k \in 0..n}

\* every node shape made of k nodes and leaves in total, given lists[n + 1], the
\* node lists of total size n, for n < k; the operator tags are set by Tagged
NodesOfSize(k, lists) ==
    (IF k = 1 THEN {[operator |-> "AND"]} ELSE {})
    \cup {[operator |-> "AND", cpe_match |-> m] : m \in SeqsOfLen(Leaves, k - 1)}
    \cup {[operator |-> "AND", children |-> c] : c \in lists[k]}
    \cup UNION {{[operator |-> "AND", cpe_match |-> m, children |-> c] :
                    m \in SeqsOfLen(Leaves, j), c \in lists[k - j]} :
                 j \in 0..(k - 1)}

\* lists extended up to total size max: lists[n + 1] is every node list made of
\* n nodes and leaves in total, nodes[k] every node of total size k
RECURSIVE NodeLists(_, _, _)
NodeLists(lists, nodes, max) ==
    LET n == Len(lists)
        nodesN == nodes \o <<NodesOfSize(n, lists)>>
        listsN == UNION {{<<d>> \o rest : d \in nodesN[k], rest \in lists[n - k + 1]} :
                            k \in 1..n}
    IN  IF n > max THEN lists
        ELSE NodeLists(Append(lists, listsN), nodesN, max)

\* the tree with operator o1 on its nodes of odd depth and o2 on those of even depth
RECURSIVE Tagged(_, _, _)
Tagged(nodes, o1, o2) ==
    [i \in 1..Len(nodes) |->
        LET d == nodes[i]
            kids == IF "children" \in DOMAIN d
                    THEN Tagged(d.children, o2, o1) ELSE <<>>
        IN  IF "cpe_match" \in DOMAIN d /\ "children" \in DOMAIN d
            THEN [operator |-> o1, cpe_match |-> d.cpe_match, children |-> kids]
            ELSE IF "cpe_match" \in DOMAIN d
            THEN [operator |-> o1, cpe_match |-> d.cpe_match]
            ELSE IF "children" \in DOMAIN d
            THEN [operator |-> o1, children |-> kids]
            ELSE [operator |-> o1]]

TreeInputs ==
    LET lists == NodeLists(<<{<<>>}>>, <<>>, MaxTreeSize)
    IN  {Tagged(t, o1, o2) :
            t \in UNION {lists[n + 1] : n \in 0..MaxTreeSize},
            o1 \in Operators, o2 \in Operators}

----------------------------------------------------------------------------
(* iterate_nodes                                                           *)

\* a slip in the inner loop: the vulnerable flag is not consulted
RECURSIVE append_any(_, _)
append_any(matches, entries) ==
    IF matches = <<>> THEN entries
    ELSE append_any(Tail(matches), Append(entries, Head(matches).cpe23Uri))

\* the inner loop over dicts['cpe_match']
RECURSIVE append_vulnerable(_, _)
append_vulnerable(matches, entries) ==
    IF matches = <<>> THEN entries
    ELSE LET cpe == Head(matches)
         IN  append_vulnerable(Tail(matches),
                 IF cpe.vulnerable = TRUE
                 THEN Append(entries, cpe.cpe23Uri)
                 ELSE entries)

RECURSIVE iterate_nodes(_, _)
iterate_nodes(nodes, entries) ==
    IF nodes = <<>> THEN entries
    ELSE LET dicts == Head(nodes)
             after == IF "cpe_match" \in DOMAIN dicts
                      THEN append_vulnerable(dicts.cpe_match, entries)
                      ELSE IF "children" \in DOMAIN dicts
                      THEN iterate_nodes(dicts.children, entries)
                      ELSE entries
         IN  iterate_nodes(Tail(nodes), after)

\* the locals of every function before its first statement
InitLocals ==
    /\ idx = 0
    /\ cpe_entries = <<>>
    /\ cve_list = <<>>
    /\ summary_list = <<>>
    /\ cpe_list = <<>>
    /\ ident = <<>>
    /\ row = <<>>
    /\ cve_table = <<>>
    /\ summary_table = <<>>
    /\ cpe_table = <<>>
    /\ dl_urls = <<>>
    /\ fetched = <<>>
    /\ outcome = "running"
    /\ ret = <<>>

InitNodes ==
    /\ op = "iterate_nodes"
    /\ pc = "call"
    /\ \E t \in TreeInputs, a \in {<<>>, <<CPE_B>>} :
          arg = [nodes |-> t, cpe_entries |-> a]
    /\ InitLocals

\* the caller's list object is the accumulator: it is extended in place and returned
IterateNodes ==
    /\ op = "iterate_nodes"
    /\ pc = "call"
    /\ cpe_entries' = iterate_nodes(arg.nodes, arg.cpe_entries)
    /\ ret' = cpe_entries'
    /\ outcome' = "returned"
    /\ pc' = "done"
    /\ UNCHANGED <<dl_urls, fetched, op, arg, idx, cve_list, summary_list, cpe_list, ident, row,
                   cve_table, summary_table, cpe_table>>

NextNodes == IterateNodes

SpecNodes == InitNodes /\ [][NextNodes]_vars

----------------------------------------------------------------------------
(* Match trees as the data model describes them, and their leaves.         *)

\* no node carries both leaf matches and children
RECURSIVE IsMatchTree(_)
IsMatchTree(nodes) ==
    \A i \in 1..Len(nodes) :
        /\ ~("cpe_match" \in DOMAIN nodes[i] /\ "children" \in DOMAIN nodes[i])
        /\ "children" \in DOMAIN nodes[i] => IsMatchTree(nodes[i].children)

\* every leaf of the tree, in depth-first document order
RECURSIVE AllLeaves(_)
AllLeaves(nodes) ==
    IF nodes = <<>> THEN <<>>
    ELSE LET d == nodes[Len(nodes)]
             own == IF "cpe_match" \in DOMAIN d THEN d.cpe_match ELSE <<>>
             below == IF "children" \in DOMAIN d THEN AllLeaves(d.children) ELSE <<>>
         IN  AllLeaves(SubSeq(nodes, 1, Len(nodes) - 1)) \o own \o below

IsVulnerable(leaf) == leaf.vulnerable

\* the identifiers of the vulnerable leaves, in depth-first document order
VulnerableUris(nodes) ==
    LET hit == SelectSeq(AllLeaves(nodes), IsVulnerable)
    IN  [i \in 1..Len(hit) |-> hit[i].cpe23Uri]

Range(s) == {s[i] : i \in 1..Len(s)}

----------------------------------------------------------------------------
(* extract_cve                                                             *)

D_PLAIN == <<"B", "u", "g">>
D_REJECT == REJECT \o <<" ", "x">>

Leaf(v, uri) == [vulnerable |-> v, cpe23Uri |-> uri]

TREE_ONE == <<[operator |-> "OR", cpe_match |-> <<Leaf(TRUE, CPE_A)>>]>>
TREE_DUP ==
    <<[operator |-> "AND",
       children |-> <<[operator |-> "OR",
                       cpe_match |-> <<Leaf(TRUE, CPE_A), Leaf(FALSE, CPE_B)>>],
                      [operator |-> "OR",
                       cpe_match |-> <<Leaf(TRUE, CPE_B), Leaf(TRUE, CPE_A)>>]>>]>>
TREE_NONE == <<[operator |-> "OR", cpe_match |-> <<Leaf(FALSE, CPE_B)>>]>>

FeedTrees == {<<>>, TREE_ONE, TREE_DUP, TREE_NONE}

Item(id, desc, nodes) ==
    [cve |-> [CVE_data_meta |-> [ID |-> id],
              description |-> [description_data |-> <<[value |-> desc]>>]],
     configurations |-> [nodes |-> nodes]]

\* items lacking required structure
ITEM_NO_CONFIGURATIONS ==
    [cve |-> [CVE_data_meta |-> [ID |-> CVE_2018_1],
              description |-> [description_data |-> <<[value |-> D_PLAIN]>>]]]
ITEM_NO_DESCRIPTION ==
    [cve |-> [CVE_data_meta |-> [ID |-> CVE_2018_1],
              description |-> [description_data |-> <<>>]],
     configurations |-> [nodes |-> TREE_ONE]]

FeedItems ==
    {Item(id, desc, nodes) :
        id \in {CVE_2012_0001, CVE_2018_1}, desc \in {D_PLAIN, D_REJECT},
        nodes \in FeedTrees}
    \cup {ITEM_NO_CONFIGURATIONS, ITEM_NO_DESCRIPTION}

\* the file at the path handed to extract_cve: whether it opens, reads and
\* parses, and the parsed document
FeedFiles ==
    {[status |-> "ok", root |-> [CVE_data_type |-> "CVE", CVE_Items |-> items]] :
        items \in SeqsUpTo(FeedItems, MaxItems)}
    \cup {[status |-> s, root |-> [CVE_data_type |-> "CVE"]] :
             s \in {"ok", "missing", "unreadable", "malformed"}}

\* the exception the reads of one item raise, "none" if they all succeed
item_error(vuln) ==
    IF "cve" \notin DOMAIN vuln THEN "KeyError"
    ELSE IF vuln.cve.description.description_data = <<>> THEN "IndexError"
    ELSE IF "configurations" \notin DOMAIN vuln THEN "KeyError"
    ELSE "none"

\* a slip in the first condition: the node list is not consulted
route_ignoring_nodes(nodes, summary) ==
    IF ~startswith(summary, REJECT) THEN "summary"
    ELSE IF nodes # <<>> THEN "matched"
    ELSE "none"

\* a slip in the second condition: a plain else
route_plain_else(nodes, summary) ==
    IF nodes = <<>> /\ ~startswith(summary, REJECT) THEN "summary"
    ELSE "matched"

\* the output an item goes to
route(nodes, summary) ==
    IF nodes = <<>> /\ ~startswith(summary, REJECT) THEN "summary"
    ELSE IF nodes # <<>> THEN "matched"
    ELSE "none"

Orderings(S) == {s \in SeqsOfLen(S, Cardinality(S)) : Range(s) = S}

\* a slip: the list is kept as walked, duplicates included
dedup_missing(entries) == {entries}

\* list(set(entries)): each distinct entry once, in an order the hash seeds decide
dedup_orders(entries) == Orderings(Range(entries))

InitExtractCve ==
    /\ op = "extract_cve"
    /\ pc = "open"
    /\ \E f \in FeedFiles : arg = [file |-> f]
    /\ InitLocals

\* feeds = open(file)
ExtractCveOpen ==
    /\ op = "extract_cve"
    /\ pc = "open"
    /\ IF arg.file.status = "missing"
       THEN \* IOError, exit(err); then feeds.close() on None in the finally clause
            /\ outcome' = "AttributeError"
            /\ pc' = "done"
       ELSE /\ pc' = "load"
            /\ UNCHANGED outcome
    /\ UNCHANGED <<dl_urls, fetched, op, arg, idx, cpe_entries, cve_list, summary_list, cpe_list,
                   ident, row, cve_table, summary_table, cpe_table, ret>>

\* root = load(feeds); items = root['CVE_Items']
ExtractCveLoad ==
    /\ op = "extract_cve"
    /\ pc = "load"
    /\ IF arg.file.status = "unreadable"
       THEN /\ outcome' = "SystemExit"
            /\ pc' = "done"
       ELSE IF arg.file.status = "malformed"
       THEN /\ outcome' = "JSONDecodeError"
            /\ pc' = "done"
       ELSE IF "CVE_Items" \notin DOMAIN arg.file.root
       THEN /\ outcome' = "KeyError"
            /\ pc' = "done"
       ELSE /\ pc' = "loop"
            /\ UNCHANGED outcome
    /\ UNCHANGED <<dl_urls, fetched, op, arg, idx, cpe_entries, cve_list, summary_list, cpe_list,
                   ident, row, cve_table, summary_table, cpe_table, ret>>

\* a slip: an item lacking required structure is skipped
ExtractCveItem_skipping ==
    /\ op = "extract_cve"
    /\ pc = "loop"
    /\ idx < Len(arg.file.root.CVE_Items)
    /\ LET vuln == arg.file.root.CVE_Items[idx + 1]
       IN  IF item_error(vuln) # "none"
           THEN UNCHANGED <<cve_list, summary_list>>
           ELSE LET cve_id == vuln.cve.CVE_data_meta.ID
                    summary == vuln.cve.description.description_data[1].value
                    nodes == vuln.configurations.nodes
                    to == route(nodes, summary)
                IN  /\ IF to = "summary"
                       THEN summary_list' = summary_list \o <<cve_id, summary>>
                       ELSE UNCHANGED summary_list
                    /\ IF to = "matched"
                       THEN \E order \in dedup_orders(iterate_nodes(nodes, <<>>)) :
                               cve_list' = Append(cve_list, cve_id) \o order
                       ELSE UNCHANGED cve_list
    /\ idx' = idx + 1
    /\ UNCHANGED <<dl_urls, fetched, op, pc, arg, cpe_entries, cpe_list, ident, row, cve_table,
                   summary_table, cpe_table, outcome, ret>>

\* one pass of "for vuln in items"
ExtractCveItem ==
    /\ op = "extract_cve"
    /\ pc = "loop"
    /\ idx < Len(arg.file.root.CVE_Items)
    /\ LET vuln == arg.file.root.CVE_Items[idx + 1]
       IN  IF item_error(vuln) # "none"
           THEN /\ outcome' = item_error(vuln)
                /\ pc' = "done"
                /\ UNCHANGED <<idx, cve_list, summary_list>>
           ELSE LET cve_id == vuln.cve.CVE_data_meta.ID
                    summary == vuln.cve.description.description_data[1].value
                    nodes == vuln.configurations.nodes
                    to == route(nodes, summary)
                IN  /\ IF to = "summary"
                       THEN summary_list' = summary_list \o <<cve_id, summary>>
                       ELSE UNCHANGED summary_list
                    /\ IF to = "matched"
                       THEN \E order \in dedup_orders(iterate_nodes(nodes, <<>>)) :
                               cve_list' = Append(cve_list, cve_id) \o order
                       ELSE UNCHANGED cve_list
                    /\ idx' = idx + 1
                    /\ UNCHANGED <<pc, outcome>>
    /\ UNCHANGED <<dl_urls, fetched, op, arg, cpe_entries, cpe_list, ident, row, cve_table,
                   summary_table, cpe_table, ret>>

\* the loop is over: feeds.close(); return cve_list, summary_list
ExtractCveReturn ==
    /\ op = "extract_cve"
    /\ pc = "loop"
    /\ idx = Len(arg.file.root.CVE_Items)
    /\ ret' = <<cve_list, summary_list>>
    /\ outcome' = "returned"
    /\ pc' = "done"
    /\ UNCHANGED <<dl_urls, fetched, op, arg, idx, cpe_entries, cve_list, summary_list, cpe_list,
                   ident, row, cve_table, summary_table, cpe_table>>

NextExtractCve ==
    \/ ExtractCveOpen
    \/ ExtractCveLoad
    \/ ExtractCveItem
    \/ ExtractCveReturn

SpecExtractCve == InitExtractCve /\ [][NextExtractCve]_vars

----------------------------------------------------------------------------
(* Properties of extract_cve.                                              *)

HasRejectMarker(desc) ==
    /\ Len(desc) >= 12
    /\ \A i \in 1..12 : desc[i] = REJECT[i]

ItemId(vuln) == vuln.cve.CVE_data_meta.ID
ItemDescription(vuln) == vuln.cve.description.description_data[1].value
ItemNodes(vuln) == vuln.configurations.nodes

\* a step of extract_cve that consumes one item without raising
ConsumesItem == op = "extract_cve" /\ pc = "loop" /\ idx' = idx + 1

ConsumedItem == arg.file.root.CVE_Items[idx + 1]

\* the step appends the item's id, then possibly more, to the matched output
EmitsIdToMatched ==
    /\ Len(cve_list') > Len(cve_list)
    /\ SubSeq(cve_list', 1, Len(cve_list) + 1) = Append(cve_list, ItemId(ConsumedItem))

\* C2: every item goes to at most one output: an item with an empty node list
\* and a description not starting with the rejection marker appends its
\* (id, description) pair to the summary output and nothing to the matched
\* output; an item with a non-empty node list appends its id to the matched
\* output and nothing to the summary output; no item extends both outputs.
C2_ItemGoesToOneOutput ==
    [][ConsumesItem =>
         /\ (ItemNodes(ConsumedItem) = <<>>
               /\ ~HasRejectMarker(ItemDescription(ConsumedItem))) =>
                /\ summary_list' = summary_list
                      \o <<ItemId(ConsumedItem), ItemDescription(ConsumedItem)>>
                /\ cve_list' = cve_list
         /\ ItemNodes(ConsumedItem) # <<>> =>
                /\ EmitsIdToMatched
                /\ summary_list' = summary_list
         /\ ~(cve_list' # cve_list /\ summary_list' # summary_list)]_vars

\* a feed of one summary item and one matched item, returned
C2_Witness ==
    /\ op = "extract_cve"
    /\ outcome = "returned"
    /\ arg.file.root.CVE_Items =
          <<Item(CVE_2012_0001, D_PLAIN, <<>>), Item(CVE_2018_1, D_PLAIN, TREE_ONE)>>
    /\ ret = << <<CVE_2018_1, CPE_A>>, <<CVE_2012_0001, D_PLAIN>> >>

RECURSIVE Grouped(_, _)
Grouped(tokens, items) ==
    IF items = <<>> THEN tokens = <<>>
    ELSE IF ItemNodes(Head(items)) = <<>> THEN Grouped(tokens, Tail(items))
    ELSE LET ids == Range(VulnerableUris(ItemNodes(Head(items))))
             k == Cardinality(ids)
         IN  /\ Len(tokens) >= 1 + k
             /\ tokens[1] = ItemId(Head(items))
             /\ Range(SubSeq(tokens, 2, k + 1)) = ids
             /\ Grouped(SubSeq(tokens, k + 2, Len(tokens)), Tail(items))

\* C4: the matched output is grouped in feed item order: each item with a
\* non-empty node list contributes its id immediately followed by each
\* distinct identifier of a vulnerable leaf of its tree exactly once, and the
\* group ends at the next item's id. It holds of the items consumed so far
\* and of the list returned.
C4_MatchedOutputIsGrouped ==
    (op = "extract_cve" /\ pc \in {"loop", "done"}
       /\ "CVE_Items" \in DOMAIN arg.file.root) =>
        /\ Grouped(cve_list, SubSeq(arg.file.root.CVE_Items, 1, idx))
        /\ outcome = "returned" =>
              /\ idx = Len(arg.file.root.CVE_Items)
              /\ ret[1] = cve_list

\* an item whose tree repeats an identifier across branches, then another item
C4_Witness ==
    /\ op = "extract_cve"
    /\ outcome = "returned"
    /\ arg.file.root.CVE_Items =
          <<Item(CVE_2012_0001, D_PLAIN, TREE_DUP), Item(CVE_2018_1, D_PLAIN, TREE_ONE)>>
    /\ ret[1] = <<CVE_2012_0001, CPE_B, CPE_A, CVE_2018_1, CPE_A>>

WellFormedItem(vuln) ==
    /\ DOMAIN vuln = {"cve", "configurations"}
    /\ Len(vuln.cve.description.description_data) >= 1

\* the file cannot be opened, read or parsed, or lacks required structure
FeedFails(file) ==
    \/ file.status # "ok"
    \/ "CVE_Items" \notin DOMAIN file.root
    \/ \E i \in 1..Len(file.root.CVE_Items) : ~WellFormedItem(file.root.CVE_Items[i])

Exceptions == {"AttributeError", "SystemExit", "JSONDecodeError", "KeyError", "IndexError"}

\* C9: when opening or parsing the feed fails, or required structure is
\* missing, extract_cve ends with an exception and hands no (matched, summary)
\* pair to the caller, also when items were consumed before the failure; and
\* it never stops before it has ended.
C9_FailureReturnsNothing ==
    (op = "extract_cve" /\ FeedFails(arg.file)) =>
        /\ outcome # "returned"
        /\ ret = <<>>
        /\ pc = "done" => outcome \in Exceptions
        /\ pc # "done" => ENABLED NextExtractCve

\* an item lacking its configurations comes after an item that was consumed
C9_Witness ==
    /\ op = "extract_cve"
    /\ pc = "done"
    /\ outcome = "KeyError"
    /\ "CVE_Items" \in DOMAIN arg.file.root
    /\ arg.file.root.CVE_Items =
          <<Item(CVE_2012_0001, D_PLAIN, TREE_ONE), ITEM_NO_CONFIGURATIONS>>
    /\ cve_list = <<CVE_2012_0001, CPE_A>>
    /\ ret = <<>>

----------------------------------------------------------------------------
(* extract_cpe                                                             *)

\* 'cpe23-item'
CPE23_ITEM == <<"c", "p", "e", "2", "3", "-", "i", "t", "e", "m">>

\* element tags as ElementTree gives them, the namespace in braces
TAG_CPE_LIST == <<"{", "d", "}", "c", "p", "e", "-", "l", "i", "s", "t">>
TAG_CPE_ITEM == <<"{", "d", "}", "c", "p", "e", "-", "i", "t", "e", "m">>
TAG_TITLE == <<"{", "d", "}", "t", "i", "t", "l", "e">>
TAG_CPE23_ITEM == <<"{", "e", "}">> \o CPE23_ITEM

Element(tag, attrib, children) == [tag |-> tag, attrib |-> attrib, children |-> children]

Cpe23Item(name) == Element(TAG_CPE23_ITEM, [name |-> name], <<>>)
Title == Element(TAG_TITLE, [lang |-> "en-US"], <<>>)

\* the children an entry of the dictionary may have
ItemLists ==
    {<<>>,
     <<Title, Cpe23Item(CPE_A)>>,
     <<Cpe23Item(CPE_B), Cpe23Item(CPE_A)>>,
     \* a cpe23-item one level further down
     <<Element(TAG_TITLE, [lang |-> "en-US"], <<Cpe23Item(CPE_B)>>)>>,
     <<Cpe23Item(CPE_A), Element(TAG_CPE23_ITEM, [name |-> CPE_B], <<Cpe23Item(CPE_A)>>)>>,
     \* a cpe23-item without the name attribute
     <<Cpe23Item(CPE_A), Element(TAG_CPE23_ITEM, [lang |-> "en-US"], <<>>)>>}

\* the children the root may have
Entries ==
    {Element(TAG_CPE_ITEM, [name |-> CPE_A], items) : items \in ItemLists}
    \* a cpe23-item directly below the root
    \cup {Cpe23Item(CPE_B), Element(TAG_CPE23_ITEM, [name |-> CPE_B], <<Cpe23Item(CPE_A)>>)}

\* the file at the path handed to extract_cpe
DictionaryFiles ==
    {[status |-> "ok", root |-> Element(TAG_CPE_LIST, [lang |-> "en-US"], entries)] :
        entries \in SeqsUpTo(Entries, MaxEntries)}
    \cup {[status |-> s, root |-> Element(TAG_CPE_LIST, [lang |-> "en-US"], <<>>)] :
             s \in {"missing", "malformed"}}

\* the inner loop "for item in entry": the list extended with the name of each
\* item whose tag contains 'cpe23-item'
RECURSIVE entry_names(_, _)
entry_names(items, list) ==
    IF items = <<>> THEN list
    ELSE entry_names(Tail(items),
             IF contains(Head(items).tag, CPE23_ITEM)
             THEN Append(list, Head(items).attrib.name)
             ELSE list)

\* item.attrib['name'] raises for an item so tagged that has no name
entry_error(items) ==
    IF \E i \in 1..Len(items) :
          /\ contains(items[i].tag, CPE23_ITEM)
          /\ "name" \notin DOMAIN items[i].attrib
    THEN "KeyError"
    ELSE "none"

InitExtractCpe ==
    /\ op = "extract_cpe"
    /\ pc = "parse"
    /\ \E f \in DictionaryFiles : arg = [file |-> f]
    /\ InitLocals

\* tree = Et.parse(file); root = tree.getroot()
ExtractCpeParse ==
    /\ op = "extract_cpe"
    /\ pc = "parse"
    /\ IF arg.file.status = "malformed"
       THEN \* Et.ParseError, exit(err)
            /\ outcome' = "SystemExit"
            /\ pc' = "done"
       ELSE IF arg.file.status = "missing"
       THEN /\ outcome' = "FileNotFoundError"
            /\ pc' = "done"
       ELSE /\ pc' = "loop"
            /\ UNCHANGED outcome
    /\ UNCHANGED <<dl_urls, fetched, op, arg, idx, cpe_entries, cve_list, summary_list, cpe_list,
                   ident, row, cve_table, summary_table, cpe_table, ret>>

\* one pass of "for entry in root", with its inner loop
ExtractCpeEntry ==
    /\ op = "extract_cpe"
    /\ pc = "loop"
    /\ idx < Len(arg.file.root.children)
    /\ LET entry == arg.file.root.children[idx + 1]
       IN  IF entry_error(entry.children) # "none"
           THEN /\ outcome' = entry_error(entry.children)
                /\ pc' = "done"
                /\ UNCHANGED <<idx, cpe_list>>
           ELSE /\ cpe_list' = entry_names(entry.children, cpe_list)
                /\ idx' = idx + 1
                /\ UNCHANGED <<pc, outcome>>
    /\ UNCHANGED <<dl_urls, fetched, op, arg, cpe_entries, cve_list, summary_list, ident, row,
                   cve_table, summary_table, cpe_table, ret>>

\* return cpe_list
ExtractCpeReturn ==
    /\ op = "extract_cpe"
    /\ pc = "loop"
    /\ idx = Len(arg.file.root.children)
    /\ ret' = cpe_list
    /\ outcome' = "returned"
    /\ pc' = "done"
    /\ UNCHANGED <<dl_urls, fetched, op, arg, idx, cpe_entries, cve_list, summary_list, cpe_list,
                   ident, row, cve_table, summary_table, cpe_table>>

NextExtractCpe ==
    \/ ExtractCpeParse
    \/ ExtractCpeEntry
    \/ ExtractCpeReturn

SpecExtractCpe == InitExtractCpe /\ [][NextExtractCpe]_vars

----------------------------------------------------------------------------
(* Properties of extract_cpe.                                              *)

\* the elements below, in document order, each with its depth under the root
RECURSIVE Walk(_, _)
Walk(elements, depth) ==
    IF elements = <<>> THEN <<>>
    ELSE <<[element |-> Head(elements), depth |-> depth]>>
         \o Walk(Head(elements).children, depth + 1)
         \o Walk(Tail(elements), depth)

\* the text 'cpe23-item' occurs somewhere in the tag
TagNamesCpe23Item(tag) ==
    \E i \in 1..Len(tag) : \E j \in i..Len(tag) : SubSeq(tag, i, j) = CPE23_ITEM

IsCpe23Item(visit) == TagNamesCpe23Item(visit.element.tag)
IsCpe23ItemBelowEntry(visit) == IsCpe23Item(visit) /\ visit.depth = 2

NamesOf(visits) == [i \in 1..Len(visits) |-> visits[i].element.attrib.name]

\* C10 as stated: the list returned holds, in document order, the name of
\* every element tagged cpe23-item, wherever it sits in the tree.
C10_AsStated ==
    (op = "extract_cpe" /\ outcome = "returned") =>
        ret = NamesOf(SelectSeq(Walk(arg.file.root.children, 1), IsCpe23Item))

\* C10: for a dictionary that parses and whose cpe23-item elements below an
\* entry all carry a name, extract_cpe returns, in document order, the name of
\* every element that is a child of a child of the root and whose tag contains
\* 'cpe23-item', and nothing else: elements so tagged directly below the root
\* or deeper than two levels are not returned.
C10_NamesOfItemsBelowEntries ==
    (op = "extract_cpe" /\ pc = "done" /\ arg.file.status = "ok") =>
        LET hits == SelectSeq(Walk(arg.file.root.children, 1), IsCpe23ItemBelowEntry)
        IN  IF \A i \in 1..Len(hits) : "name" \in DOMAIN hits[i].element.attrib
            THEN outcome = "returned" /\ ret = NamesOf(hits)
            ELSE outcome = "KeyError" /\ ret = <<>>

\* a dictionary with cpe23-items below an entry, below the root and three
\* levels down
C10_Witness ==
    /\ op = "extract_cpe"
    /\ outcome = "returned"
    /\ arg.file.root.children =
          <<Element(TAG_CPE23_ITEM, [name |-> CPE_B], <<Cpe23Item(CPE_A)>>),
            Element(TAG_CPE_ITEM, [name |-> CPE_A],
                    <<Cpe23Item(CPE_A),
                      Element(TAG_CPE23_ITEM, [name |-> CPE_B], <<Cpe23Item(CPE_A)>>)>>)>>
    /\ ret = <<CPE_A, CPE_A, CPE_B>>

----------------------------------------------------------------------------
(* unbinding (internal/meta.py), as section 4.3 of the specification       *)
(* describes it and as CVE_TABLE and CPE_TABLE of the tests show it.       *)

ANY == <<"A", "N", "Y">>
NA == <<"N", "A">>

\* re.sub(r'(?<!\\)[.]', r'\\.', attr): a backslash before each unescaped dot
RECURSIVE escape_dots(_)
escape_dots(attr) ==
    IF attr = <<>> THEN <<>>
    ELSE LET n == Len(attr)
             unescaped == attr[n] = "." /\ (n = 1 \/ attr[n - 1] # "\\")
         IN  escape_dots(SubSeq(attr, 1, n - 1))
                \o (IF unescaped THEN <<"\\", ".">> ELSE <<attr[n]>>)

unbinding(attributes) ==
    [k \in 1..Len(attributes) |->
        IF attributes[k] = Star THEN ANY
        ELSE IF attributes[k] = Dash THEN NA
        ELSE escape_dots(attributes[k])]

----------------------------------------------------------------------------
(* setup_cve_table and setup_cpe_table                                     *)

\* a description that begins like an id
D_CVE == <<"C", "V", "E", "-", "2", "0", "1", "7", "-", "5", " ", "x">>
\* a token that is neither an id nor an identifier
JUNK == <<"x">>

FlatTokens == {CVE_2012_0001, CVE_2018_1, CPE_A, CPE_B, CPE_C, JUNK}
SummaryTokens == {CVE_2012_0001, CVE_2018_1, D_PLAIN, D_CVE}

TableInputs ==
    {[cve_list |-> f, summary_list |-> s] :
        f \in SeqsUpTo(FlatTokens, MaxTokens),
        s \in {<<>>, <<CVE_2018_1, D_PLAIN>>}}
    \cup {[cve_list |-> f, summary_list |-> s] :
             f \in {<<>>, <<CVE_2012_0001, CPE_A, CPE_B>>},
             s \in SeqsUpTo(SummaryTokens, MaxSummaryTokens)}

\* a slip: the sequence number of the id is taken for its year
cve_row_wrong_year(id, entry) ==
    <<id, str_split(id, "-")[3], entry>>
        \o unbinding(SubSeq(re_split_colon(entry), 3, Len(re_split_colon(entry))))

\* a slip: the components are stored as split, unbinding is not called
cve_row_unnormalized(id, entry) ==
    <<id, str_split(id, "-")[2], entry>>
        \o SubSeq(re_split_colon(entry), 3, Len(re_split_colon(entry)))

\* the row built for an identifier token: ident, year, entry, then
\* unbinding(re.split(r'(?<!\\)[:]', entry)[2:])
cve_row(id, entry) ==
    <<id, str_split(id, "-")[2], entry>>
        \o unbinding(SubSeq(re_split_colon(entry), 3, Len(re_split_colon(entry))))

\* ident.split('-')[1] raises when ident holds no '-'
cve_row_error(id) ==
    IF Len(str_split(id, "-")) < 2 THEN "IndexError" ELSE "none"

\* a slip: the identifier is appended instead of inserted in front
cpe_row_appended(cpe) ==
    Append(unbinding(SubSeq(re_split_colon(cpe), 3, Len(re_split_colon(cpe)))), cpe)

\* row = unbinding(re.split(r'(?<!\\)[:]', cpe)[2:]); row.insert(0, cpe)
cpe_row(cpe) ==
    <<cpe>> \o unbinding(SubSeq(re_split_colon(cpe), 3, Len(re_split_colon(cpe))))

InitSetupCveTable ==
    /\ op = "setup_cve_table"
    /\ pc = "cve_loop"
    /\ arg \in TableInputs
    /\ InitLocals

InitSetupCpeTable ==
    /\ op = "setup_cpe_table"
    /\ pc = "cpe_loop"
    /\ \E l \in SeqsUpTo({CPE_A, CPE_B, CPE_C, JUNK}, MaxTokens) : arg = [cpe_list |-> l]
    /\ InitLocals

\* one pass of "for entry in cve_list"
SetupCveEntry ==
    /\ op = "setup_cve_table"
    /\ pc = "cve_loop"
    /\ idx < Len(arg.cve_list)
    /\ LET entry == arg.cve_list[idx + 1]
       IN  IF re_match_cve_id(entry)
           THEN /\ ident' = entry
                /\ idx' = idx + 1
                /\ UNCHANGED <<pc, row, cve_table, outcome>>
           ELSE IF cve_row_error(ident) # "none"
           THEN /\ outcome' = cve_row_error(ident)
                /\ pc' = "done"
                /\ UNCHANGED <<idx, ident, row, cve_table>>
           ELSE /\ cve_table' = Append(cve_table, row \o cve_row(ident, entry))
                /\ row' = <<>>
                /\ idx' = idx + 1
                /\ UNCHANGED <<pc, ident, outcome>>
    /\ UNCHANGED <<dl_urls, fetched, op, arg, cpe_entries, cve_list, summary_list, cpe_list,
                   summary_table, cpe_table, ret>>

\* the first loop is over: "if summary_list:" and the second loop begin
SetupCveSummaries ==
    /\ op = "setup_cve_table"
    /\ pc = "cve_loop"
    /\ idx = Len(arg.cve_list)
    /\ pc' = "summary_loop"
    /\ idx' = 0
    /\ UNCHANGED <<dl_urls, fetched, op, arg, cpe_entries, cve_list, summary_list, cpe_list, ident,
                   row, cve_table, summary_table, cpe_table, outcome, ret>>

\* one pass of "for entry in summary_list"
SetupCveSummary ==
    /\ op = "setup_cve_table"
    /\ pc = "summary_loop"
    /\ idx < Len(arg.summary_list)
    /\ LET entry == arg.summary_list[idx + 1]
       IN  IF re_match_cve_id(entry)
           THEN /\ row' = row \o <<entry, str_split(entry, "-")[2]>>
                /\ UNCHANGED summary_table
           ELSE /\ summary_table' = Append(summary_table, Append(row, entry))
                /\ row' = <<>>
    /\ idx' = idx + 1
    /\ UNCHANGED <<dl_urls, fetched, op, pc, arg, cpe_entries, cve_list, summary_list, cpe_list,
                   ident, cve_table, cpe_table, outcome, ret>>

\* return cve_table, summary_table
SetupCveReturn ==
    /\ op = "setup_cve_table"
    /\ pc = "summary_loop"
    /\ idx = Len(arg.summary_list)
    /\ ret' = <<cve_table, summary_table>>
    /\ outcome' = "returned"
    /\ pc' = "done"
    /\ UNCHANGED <<dl_urls, fetched, op, arg, idx, cpe_entries, cve_list, summary_list, cpe_list,
                   ident, row, cve_table, summary_table, cpe_table>>

\* one pass of "for cpe in cpe_list"
SetupCpeEntry ==
    /\ op = "setup_cpe_table"
    /\ pc = "cpe_loop"
    /\ idx < Len(arg.cpe_list)
    /\ row' = cpe_row(arg.cpe_list[idx + 1])
    /\ cpe_table' = Append(cpe_table, row')
    /\ idx' = idx + 1
    /\ UNCHANGED <<dl_urls, fetched, op, pc, arg, cpe_entries, cve_list, summary_list, cpe_list,
                   ident, cve_table, summary_table, outcome, ret>>

\* return cpe_table
SetupCpeReturn ==
    /\ op = "setup_cpe_table"
    /\ pc = "cpe_loop"
    /\ idx = Len(arg.cpe_list)
    /\ ret' = cpe_table
    /\ outcome' = "returned"
    /\ pc' = "done"
    /\ UNCHANGED <<dl_urls, fetched, op, arg, idx, cpe_entries, cve_list, summary_list, cpe_list,
                   ident, row, cve_table, summary_table, cpe_table>>

InitTables == InitSetupCveTable \/ InitSetupCpeTable

NextTables ==
    \/ SetupCveEntry
    \/ SetupCveSummaries
    \/ SetupCveSummary
    \/ SetupCveReturn
    \/ SetupCpeEntry
    \/ SetupCpeReturn

SpecTables == InitTables /\ [][NextTables]_vars

----------------------------------------------------------------------------
(* Properties of the table builders.                                       *)

\* the token has the shape CVE-dddd-d...
IdShaped(token) ==
    /\ Len(token) >= 10
    /\ <<token[1], token[2], token[3], token[4], token[9]>> = <<"C", "V", "E", "-", "-">>
    /\ {token[5], token[6], token[7], token[8], token[10]} \subseteq Digits

\* the text between the first and the second '-' of an id
YearField(id) ==
    LET dashes == {i \in 1..Len(id) : id[i] = "-"}
        first == CHOOSE i \in dashes : \A j \in dashes : i <= j
        second == CHOOSE i \in dashes \ {first} : \A j \in dashes \ {first} : i <= j
    IN  SubSeq(id, first + 1, second - 1)

\* the components of an identifier: its text cut at the unescaped colons,
\* the first two pieces dropped
RawComponents(identifier) ==
    SubSeq(re_split_colon(identifier), 3, Len(re_split_colon(identifier)))

\* the rows the claim describes for a flat sequence: one per non-id token, made
\* of the last id-shaped token before it, that id's year and the token
ExpectedCveRows(flat) ==
    LET others == {p \in 1..Len(flat) : ~IdShaped(flat[p])}
        nth(i) == CHOOSE p \in others : Cardinality({q \in others : q < p}) = i - 1
        lastId(p) ==
            flat[CHOOSE j \in 1..(p - 1) :
                    /\ IdShaped(flat[j])
                    /\ \A k \in (j + 1)..(p - 1) : ~IdShaped(flat[k])]
    IN  [i \in 1..Cardinality(others) |->
            <<lastId(nth(i)), YearField(lastId(nth(i))), flat[nth(i)]>>
                \o unbinding(RawComponents(flat[nth(i)]))]

StartsWithId(flat) == Len(flat) >= 1 /\ IdShaped(flat[1])

\* C5: for a flat sequence that starts with an id-shaped token,
\* setup_cve_table emits one row per non-id token and none for an id token;
\* the i-th row belongs to the i-th non-id token and holds the most recent
\* id-shaped token before it, the year field of that id, the token verbatim
\* and then the normalized components; scanning the summary sequence leaves
\* the rows as they are, and they are the first list returned.
C5_OneRowPerIdentifier ==
    (op = "setup_cve_table" /\ StartsWithId(arg.cve_list)) =>
        /\ outcome \in {"running", "returned"}
        /\ pc = "cve_loop" => cve_table = ExpectedCveRows(SubSeq(arg.cve_list, 1, idx))
        /\ pc # "cve_loop" => cve_table = ExpectedCveRows(arg.cve_list)
        /\ outcome = "returned" => ret[1] = cve_table

\* an id followed by two identifiers, and a summary sequence scanned after it
C5_Witness ==
    /\ op = "setup_cve_table"
    /\ outcome = "returned"
    /\ arg.cve_list = <<CVE_2012_0001, CPE_A, CPE_B>>
    /\ arg.summary_list = <<CVE_2018_1, D_PLAIN>>
    /\ Len(ret[1]) = 2
    /\ SubSeq(ret[1][1], 1, 3) = <<CVE_2012_0001, <<"2", "0", "1", "2">>, CPE_A>>
    /\ SubSeq(ret[1][2], 1, 3) = <<CVE_2012_0001, <<"2", "0", "1", "2">>, CPE_B>>
    /\ Len(ret[2]) = 1

\* ids at the odd positions, descriptions (any text) at the even ones
Alternating(summary) ==
    /\ Len(summary) % 2 = 0
    /\ \A i \in 1..Len(summary) : i % 2 = 1 => IdShaped(summary[i])

PairRows(summary) ==
    [k \in 1..(Len(summary) \div 2) |->
        <<summary[2 * k - 1], YearField(summary[2 * k - 1]), summary[2 * k]>>]

\* C6 as stated: for a summary sequence of alternating ids and descriptions,
\* whatever text the descriptions hold, setup_cve_table returns one row
\* (id, year of the id, description) per pair, in order, and the row buffer is
\* empty at the end.
C6_AsStated ==
    (op = "setup_cve_table" /\ outcome = "returned" /\ Alternating(arg.summary_list)) =>
        /\ ret[2] = PairRows(arg.summary_list)
        /\ row = <<>>

\* what the code does keep: the pairs whose description does not itself begin
\* like an id come out as the claim says
SummaryRowsForPlainDescriptions ==
    (op = "setup_cve_table" /\ outcome = "returned" /\ Alternating(arg.summary_list)
       /\ \A i \in 1..Len(arg.summary_list) :
             i % 2 = 0 => ~IdShaped(arg.summary_list[i])) =>
        /\ ret[2] = PairRows(arg.summary_list)
        /\ row = <<>>

\* C7: setup_cpe_table builds one row per input identifier, in input order:
\* the first column of the i-th row is the i-th identifier verbatim, the
\* other columns are its normalized components, with no id or year before
\* them; the table returned has as many rows as the input has identifiers.
C7_DictionaryRows ==
    op = "setup_cpe_table" =>
        /\ Len(cpe_table) = idx
        /\ \A i \in 1..Len(cpe_table) :
              /\ cpe_table[i][1] = arg.cpe_list[i]
              /\ Len(cpe_table[i]) = 1 + Len(RawComponents(arg.cpe_list[i]))
              /\ Tail(cpe_table[i]) = unbinding(RawComponents(arg.cpe_list[i]))
        /\ outcome = "returned" =>
              /\ ret = cpe_table
              /\ Len(ret) = Len(arg.cpe_list)

C7_Witness ==
    /\ op = "setup_cpe_table"
    /\ outcome = "returned"
    /\ arg.cpe_list = <<CPE_B, CPE_A, CPE_B>>
    /\ Len(ret) = 3
    /\ ret[2][1] = CPE_A
    /\ Len(ret[2]) = 12

\* out is the normalization of the raw component raw: ANY for '*', NA for
\* '-', otherwise raw with a backslash put before each dot that has none
NormalizedAs(raw, out) ==
    IF raw = <<"*">> THEN out = <<"A", "N", "Y">>
    ELSE IF raw = <<"-">> THEN out = <<"N", "A">>
    ELSE LET dots == {i \in 1..Len(raw) :
                         raw[i] = "." /\ (i = 1 \/ raw[i - 1] # "\\")}
             shift(i) == Cardinality({d \in dots : d <= i})
         IN  /\ Len(out) = Len(raw) + Cardinality(dots)
             /\ \A i \in 1..Len(raw) :
                   /\ out[i + shift(i)] = raw[i]
                   /\ i \in dots => out[i + shift(i) - 1] = "\\"

\* the columns of row after the first prefix ones are the normalized raw
\* components of identifier, in the same order and number
ColumnsNormalized(table_row, prefix, identifier) ==
    LET raw == RawComponents(identifier)
    IN  /\ Len(table_row) = prefix + Len(raw)
        /\ \A k \in 1..Len(raw) : NormalizedAs(raw[k], table_row[prefix + k])

\* C8: in every row of the vulnerability table and of the dictionary table
\* the component columns are the raw components of the row's identifier, in
\* the same order and number, each normalized on its own: '*' becomes ANY,
\* '-' becomes NA, and in any other component each unescaped '.' gets a
\* backslash before it while every other character, existing escapes
\* included, stays as it is.
C8_ComponentsNormalized ==
    /\ \A i \in 1..Len(cve_table) : ColumnsNormalized(cve_table[i], 3, cve_table[i][3])
    /\ \A i \in 1..Len(cpe_table) : ColumnsNormalized(cpe_table[i], 1, cpe_table[i][1])

\* a vulnerability row whose identifier holds an unescaped dot after an
\* escape, an escaped dot, '-' and '*'
C8_Witness ==
    /\ op = "setup_cve_table"
    /\ Len(cve_table) >= 1
    /\ cve_table[1][3] = CPE_B
    /\ SubSeq(cve_table[1], 4, 8) =
          << <<"o">>, <<"\\", "$", "0", "\\", ".", "9">>, <<"w", "\\", ".", "1">>,
             <<"N", "A">>, <<"A", "N", "Y">> >>
    /\ Len(cve_table[1]) = 14

\* C11 as stated: when setup_cve_table meets a token that is not id-shaped
\* while the current id is still the initial empty text, the call does not
\* fail and one row is added for the token, with the empty current id in its
\* id column and the token in its identifier column.
C11_AsStated ==
    [][(/\ op = "setup_cve_table"
        /\ pc = "cve_loop"
        /\ idx < Len(arg.cve_list)
        /\ ~IdShaped(arg.cve_list[idx + 1])
        /\ ident = <<>>) =>
            /\ outcome' = "running"
            /\ Len(cve_table') = Len(cve_table) + 1
            /\ cve_table'[Len(cve_table')][1] = <<>>
            /\ cve_table'[Len(cve_table')][3] = arg.cve_list[idx + 1]]_vars

\* the number of consecutive backslashes that end right before position i
RECURSIVE BackslashesBefore(_, _)
BackslashesBefore(s, i) ==
    IF i > 1 /\ s[i - 1] = "\\" THEN 1 + BackslashesBefore(s, i - 1) ELSE 0

\* a backslash escapes the character after it, another backslash included: a
\* character is escaped when an odd number of backslashes runs up to it
Escaped(s, i) == BackslashesBefore(s, i) % 2 = 1

UnescapedColons(s) == {i \in 1..Len(s) : s[i] = ":" /\ ~Escaped(s, i)}

\* the text cut at its unescaped colons is 'cpe', '2.3' and 11 fields, and no
\* field ends in the middle of an escape
WellFormedIdentifier(s) ==
    LET parts == Pieces(s, UnescapedColons(s))
    IN  /\ Len(parts) = 13
        /\ parts[1] = <<"c", "p", "e">>
        /\ parts[2] = <<"2", ".", "3">>
        /\ ~Escaped(s, Len(s) + 1)

\* C12 as stated: the split behind a table row cuts the identifier at every
\* unescaped colon and at no escaped one, so that a well-formed identifier
\* leaves its 11 fields after the first two pieces are dropped: the row of
\* a well-formed identifier has 14 columns in the vulnerability table and
\* 12 in the dictionary table, the last 11 being its normalized fields.
C12_AsStated ==
    /\ \A i \in 1..Len(cve_table) :
          LET identifier == cve_table[i][3]
              fields == Pieces(identifier, UnescapedColons(identifier))
          IN  WellFormedIdentifier(identifier) =>
                  /\ Len(cve_table[i]) = 14
                  /\ SubSeq(cve_table[i], 4, 14) = unbinding(SubSeq(fields, 3, 13))
    /\ \A i \in 1..Len(cpe_table) :
          LET identifier == cpe_table[i][1]
              fields == Pieces(identifier, UnescapedColons(identifier))
          IN  WellFormedIdentifier(identifier) =>
                  /\ Len(cpe_table[i]) = 12
                  /\ SubSeq(cpe_table[i], 2, 12) = unbinding(SubSeq(fields, 3, 13))

----------------------------------------------------------------------------
(* download_data, download_cve, get_cve_links and iterate_urls             *)

\* meta['source_urls']['cpe_source'], by the name of the archive
cpe_source ==
    <<"o", "f", "f", "i", "c", "i", "a", "l", "-", "c", "p", "e", "-", "d",
      "i", "c", "t", "i", "o", "n", "a", "r", "y", "_", "v", "2", ".", "3",
      ".", "x", "m", "l", ".", "z", "i", "p">>

\* meta['source_urls']['cve_source'], by the name of the archive: the blue
\* print of a feed url, with '{}' where the year goes
cve_source ==
    <<"n", "v", "d", "c", "v", "e", "-", "1", ".", "0", "-", "{", "}", ".",
      "j", "s", "o", "n", ".", "z", "i", "p">>

MODIFIED == <<"m", "o", "d", "i", "f", "i", "e", "d">>

\* str.format with one argument: the first '{}' of template replaced by text
format(template, text) ==
    LET holes == {i \in 1..(Len(template) - 1) :
                     template[i] = "{" /\ template[i + 1] = "}"}
        hole == CHOOSE i \in holes : \A j \in holes : i <= j
    IN  IF holes = {} THEN template
        ELSE SubSeq(template, 1, hole - 1) \o text
                 \o SubSeq(template, hole + 2, Len(template))

\* str(n) for a natural number n
RECURSIVE str(_)
str(n) ==
    LET digit == <<"0", "1", "2", "3", "4", "5", "6", "7", "8", "9">>[(n % 10) + 1]
    IN  IF n < 10 THEN <<digit>> ELSE Append(str(n \div 10), digit)

\* one url per year from 2002 to the current year
get_cve_links(url, current) ==
    [k \in 1..(IF current >= 2002 THEN current - 2001 ELSE 0) |->
        format(url, str(2001 + k))]

\* "for year in years: if str(year) in candidate: dl_urls.append(candidate)"
RECURSIVE append_for_years(_, _, _)
append_for_years(urls, candidate, years) ==
    IF years = <<>> THEN urls
    ELSE append_for_years(
             IF contains(candidate, str(Head(years)))
             THEN Append(urls, candidate) ELSE urls,
             candidate, Tail(years))

\* "for candidate in cve_candidates": the list passed in, appended to in place
RECURSIVE append_candidates(_, _, _)
append_candidates(urls, candidates, years) ==
    IF candidates = <<>> THEN urls
    ELSE append_candidates(append_for_years(urls, Head(candidates), years),
                           Tail(candidates), years)

\* download_cve for years that are not None: the value returned, which is the
\* list object passed as dl_urls
download_cve(urls, years, current) ==
    append_candidates(urls, get_cve_links(cve_source, current), years)

\* the current years and the requested years explored; years is None by
\* default, and years_is_none tells that case from a list
CurrentYears == {2003, 2004}
YearChoices == {2002, 2003, 2005}

DownloadInputs ==
    {[cpe |-> c, cve |-> v, update |-> u, years_is_none |-> FALSE, years |-> y,
      today |-> t] :
        c \in BOOLEAN, v \in BOOLEAN, u \in BOOLEAN,
        y \in SeqsUpTo(YearChoices, MaxYears), t \in CurrentYears}
    \cup {[cpe |-> c, cve |-> v, update |-> u, years_is_none |-> TRUE,
           years |-> <<>>, today |-> t] :
             c \in BOOLEAN, v \in BOOLEAN, u \in BOOLEAN, t \in CurrentYears}

InitDownloadData ==
    /\ op = "download_data"
    /\ pc = "options"
    /\ arg \in DownloadInputs
    /\ InitLocals

\* download_data up to "if cve:": the options are checked and the urls of the
\* dictionary and of the 'modified' feed are appended
DownloadDataOptions ==
    /\ op = "download_data"
    /\ pc = "options"
    /\ IF ~arg.cpe /\ ~arg.cve /\ ~arg.update
       THEN /\ outcome' = "SystemExit"
            /\ pc' = "done"
            /\ UNCHANGED dl_urls
       ELSE /\ dl_urls' = (IF arg.cpe THEN <<cpe_source>> ELSE <<>>)
                    \o (IF arg.update THEN <<format(cve_source, MODIFIED)>>
                        ELSE <<>>)
            /\ pc' = IF arg.cve THEN "download_cve" ELSE "iterate_urls"
            /\ UNCHANGED outcome
    /\ UNCHANGED <<fetched, op, arg, idx, cpe_entries, cve_list, summary_list,
                   cpe_list, ident, row, cve_table, summary_table, cpe_table, ret>>

\* dl_urls.extend(download_cve(dl_urls, years, meta)): download_cve appends to
\* the list it is given and returns that same list, which is then extended
\* by itself
DownloadCve ==
    /\ op = "download_data"
    /\ pc = "download_cve"
    /\ IF arg.years_is_none
       THEN /\ outcome' = "SystemExit"
            /\ pc' = "done"
            /\ UNCHANGED dl_urls
       ELSE /\ LET returned == download_cve(dl_urls, arg.years, arg.today)
               IN  dl_urls' = returned \o returned
            /\ pc' = "iterate_urls"
            /\ UNCHANGED outcome
    /\ UNCHANGED <<fetched, op, arg, idx, cpe_entries, cve_list, summary_list,
                   cpe_list, ident, row, cve_table, summary_table, cpe_table, ret>>

\* one pass of "for url in dl_urls": the url is requested and unpacked
IterateUrlsGet ==
    /\ op = "download_data"
    /\ pc = "iterate_urls"
    /\ idx < Len(dl_urls)
    /\ fetched' = Append(fetched, dl_urls[idx + 1])
    /\ idx' = idx + 1
    /\ UNCHANGED <<dl_urls, op, pc, arg, cpe_entries, cve_list, summary_list,
                   cpe_list, ident, row, cve_table, summary_table, cpe_table,
                   outcome, ret>>

\* one pass of "for url in dl_urls" that fails: the request raises and exit
\* is called, or the content received is not an archive
IterateUrlsFail ==
    /\ op = "download_data"
    /\ pc = "iterate_urls"
    /\ idx < Len(dl_urls)
    /\ \/ /\ outcome' = "SystemExit"
          /\ UNCHANGED fetched
       \/ /\ outcome' = "BadZipFile"
          /\ fetched' = Append(fetched, dl_urls[idx + 1])
    /\ pc' = "done"
    /\ UNCHANGED <<dl_urls, op, arg, idx, cpe_entries, cve_list, summary_list,
                   cpe_list, ident, row, cve_table, summary_table, cpe_table, ret>>

\* the loop of iterate_urls is over and download_data returns None
DownloadDataReturn ==
    /\ op = "download_data"
    /\ pc = "iterate_urls"
    /\ idx = Len(dl_urls)
    /\ outcome' = "returned"
    /\ pc' = "done"
    /\ UNCHANGED <<dl_urls, fetched, op, arg, idx, cpe_entries, cve_list,
                   summary_list, cpe_list, ident, row, cve_table, summary_table,
                   cpe_table, ret>>

NextDownload ==
    \/ DownloadDataOptions
    \/ DownloadCve
    \/ IterateUrlsGet
    \/ IterateUrlsFail
    \/ DownloadDataReturn

SpecDownload == InitDownloadData /\ [][NextDownload]_vars

----------------------------------------------------------------------------
(* Properties of the download.                                             *)

NoDuplicates(list) ==
    \A i \in 1..Len(list) : \A j \in 1..Len(list) : list[i] = list[j] => i = j

\* the sources the options select: the dictionary, the 'modified' feed and
\* the feed of each requested year
SelectedSources(a) ==
    (IF a.cpe THEN {cpe_source} ELSE {})
    \cup (IF a.update THEN {format(cve_source, MODIFIED)} ELSE {})
    \cup (IF a.cve
          THEN {format(cve_source, str(a.years[k])) : k \in 1..Len(a.years)}
          ELSE {})

\* C13 as stated: the list download_data hands to iterate_urls holds each
\* selected source exactly once (the dictionary url if cpe is set, the
\* 'modified' feed url if update is set, one feed url per requested year if
\* cve is set) and nothing else, and no url is requested twice in one call.
C13_AsStated ==
    op = "download_data" =>
        /\ pc = "iterate_urls" =>
              /\ NoDuplicates(dl_urls)
              /\ Range(dl_urls) = SelectedSources(arg)
        /\ NoDuplicates(fetched)

----------------------------------------------------------------------------
(* The whole module: any one of the functions, called once.                *)

Init ==
    InitNodes \/ InitExtractCve \/ InitExtractCpe \/ InitTables \/ InitDownloadData

Next ==
    NextNodes \/ NextExtractCve \/ NextExtractCpe \/ NextTables \/ NextDownload

Spec == Init /\ [][Next]_vars

====
